---- MODULE Spec2Model ----
(***************************************************************************)
(* Model of the speedtest engines:                                         *)
(*   - ReachabilityEngine : one request racing an optional deadline timer, *)
(*                          the verdict delivered through onFinished.      *)
(*   - PromiseEngine      : the cancelable repeat loop.                    *)
(*   - LoadNetworkEngine  : up to two PromiseEngine channels.              *)
(* The JavaScript run-time is single threaded: one action of the model is  *)
(* one run-to-completion job (an API call, an I/O settlement with the      *)
(* promise reactions it triggers, a timer callback).                       *)
(***************************************************************************)
EXTENDS Integers, Sequences, FiniteSets, TLC

(***************************************************************************)
(* Bounds of the model.                                                    *)
(***************************************************************************)
\* timeouts tried for ReachabilityEngine: absent, and -1 .. MaxTimeout
MaxTimeout == 2
\* chunk sizes tried for LoadNetworkEngine: absent, and -1 .. MaxChunk
MaxChunk == 1
\* calls of the supplied operation the channels of one LoadNetworkEngine may
\* start in all
MaxCalls == 4
\* readings of performance.now() during one nodeFetch: 1 .. MaxTime
MaxTime == 3
\* bytes of a response body, delivered one byte a chunk: 0 .. MaxBody
MaxBody == 2
\* text()/json() calls made on one NodeResponse
MaxReads == 2

\* default of the timeout option of ReachabilityEngine
DefaultTimeout == -1

\* a missing argument / property (JavaScript undefined)
Absent == "undefined"
\* JavaScript null
Null == "null"

VARIABLES
  \* ---- ReachabilityEngine ----
  rArgs,       \* the constructor's arguments [targetUrl, timeout, localAddress]
  rPc,         \* "new" before the constructor has run, "constructed" after
  finished,    \* the latch of finish()
  request,     \* the request's promise: <<"none">>, <<"pending">>,
               \* <<"fulfilled", response>>, <<"rejected", error>>
  requestSent, \* the calls made to the transport
  timer,       \* the deadline timer: "none", "armed", "fired"
  onFinished,  \* the handler held by the public attribute onFinished
  delivered,   \* the calls of onFinished made so far: <<[handler, result]>>
  settled,     \* the order in which the sources settled (observation only)
  escaped,     \* an exception of the handler left the engine unhandled
  \* ---- LoadNetworkEngine and its PromiseEngine channels ----
  cfg,         \* the constructor's argument [download, upload, localAddress]
  lne,         \* "new" before the constructor has run, then "constructed"
               \* or "threw"
  lneError,    \* the message of the error the constructor threw, or ""
  engines,     \* #engines: the channels pushed, in order
  pe,          \* per channel, the PromiseEngine: [running, currentPromise,
               \* promises], promises being every handle #next created
  api,         \* the last call of the public API (observation only)
  \* ---- nodeFetch and the NodeResponse it resolves with ----
  fArgs,       \* the options argument [method, body]
  fPc,         \* where the call is: "new", "dns", "tcp", "request",
               \* "streaming", "resolved", "rejected"
  now,         \* the last reading of performance.now()
  tcpStart,    \* `start` of measureTCPConnect: <<>> or <<t>>
  timings,     \* the timings object, an unset property being <<>>
  res,         \* the incoming response's head: <<>> or <<head>>
  toCome,      \* the body bytes the server has still to send
  bodySize,    \* the bytes received so far
  fPromise,    \* the promise nodeFetch returned: <<"none">>, <<"pending">>,
               \* <<"resolved">>, <<"rejected", error>>
  sent,        \* the request written to the network: <<>> or <<request>>
  failure,     \* the phase that failed and its error (observation only)
  nodeResponse, \* the NodeResponse: <<>> or <<[status, ok, body, json, bodyUsed]>>
  perfEntry,   \* the NodePerformanceResourceTiming the end handler builds
  reads        \* the text()/json() calls made, with their outcomes

reachVars == <<rArgs, rPc, finished, request, requestSent, timer, onFinished,
               delivered, settled, escaped>>

loadVars == <<cfg, lne, lneError, engines, pe, api>>

fetchVars == <<fArgs, fPc, now, tcpStart, timings, res, toCome, bodySize,
               fPromise, sent, failure, nodeResponse, perfEntry, reads>>

vars == <<reachVars, loadVars, fetchVars>>

(***************************************************************************)
(* ReachabilityEngine                                                      *)
(***************************************************************************)
TargetUrls == {"https://a/", "https://b/"}
LocalAddresses == {Null, "10.0.0.1"}
\* an optional number: <<>> when not given, <<n>> when given
TimeoutArgs == {<<>>} \cup {<<n>> : n \in -1 .. MaxTimeout}

\* what the transport can answer: a response (2xx or not), or an error
Responses == {[status |-> 200, ok |-> TRUE], [status |-> 404, ok |-> FALSE]}
TransportErrors == {"ENOTFOUND", "ECONNREFUSED"}
TimeoutSentinel == "Request timeout"

\* the handlers onFinished can hold: the default no-op, a handler assigned by
\* the caller, a handler assigned by the caller that throws
Handlers == {"noop", "user", "userThrows"}

\* constructor(targetUrl, { timeout = -1, ... }): the default of the option
Timeout(args) == IF args.timeout = <<>> THEN DefaultTimeout ELSE args.timeout[1]

\* isNodeFetch = !!localAddress
IsNodeFetch(localAddress) == localAddress # Null

\* (isNodeFetch ? nodeFetch : fetch)(targetUrl, finalFetchOptions)
TransportCall(url, localAddress) ==
  [fn |-> IF IsNodeFetch(localAddress) THEN "nodeFetch" ELSE "fetch",
   url |-> url,
   localAddress |-> IF IsNodeFetch(localAddress) THEN localAddress ELSE Absent]

\* timeout > 0 && setTimeout(...)
ArmsTimerOff(t) == t >= 0
ArmsTimerLate(t) == t > 1
ArmsTimer(t) == t > 0

\* { targetUrl, reachable, ...rest }
Result(url, arg) ==
  [k \in {"targetUrl"} \cup DOMAIN arg |-> IF k = "targetUrl" THEN url ELSE arg[k]]

\* the state finish() reads and writes, and whether the handler threw
FinishState(fin, dl, threw) == [finished |-> fin, delivered |-> dl, threw |-> threw]

FinishNoLatch(st, url, handler, arg) ==
  FinishState(TRUE,
              Append(st.delivered, [handler |-> handler, result |-> Result(url, arg)]),
              handler = "userThrows")

\* finish = ({ reachable, ...rest }) => { if (finished) return; finished = true;
\*                                        this.onFinished({...}) }
Finish(st, url, handler, arg) ==
  IF st.finished
    THEN FinishState(st.finished, st.delivered, FALSE)
    ELSE FinishState(TRUE,
                     Append(st.delivered,
                            [handler |-> handler, result |-> Result(url, arg)]),
                     handler = "userThrows")

\* setTimeout(() => finish(...), timeout): the constructor hands the timer a
\* function, which runs nothing of finish() before the timer fires
SetTimeoutCallsNow(st, url, handler) ==
  Finish(st, url, handler, [reachable |-> FALSE, error |-> TimeoutSentinel])
SetTimeout(st, url, handler) == st

ReachInit ==
  /\ rArgs \in [targetUrl : TargetUrls, timeout : TimeoutArgs,
                localAddress : LocalAddresses]
  /\ rPc = "new"
  /\ finished = FALSE
  /\ request = <<"none">>
  /\ requestSent = <<>>
  /\ timer = "none"
  /\ onFinished = "noop"
  /\ delivered = <<>>
  /\ settled = <<>>
  /\ escaped = FALSE

\* new ReachabilityEngine(targetUrl, options): the field initialiser sets
\* onFinished to the no-op, the request is issued, the timer is armed
ReachConstruct ==
  /\ rPc = "new"
  /\ rPc' = "constructed"
  /\ onFinished' = "noop"
  /\ request' = <<"pending">>
  /\ requestSent' = Append(requestSent,
                           TransportCall(rArgs.targetUrl, rArgs.localAddress))
  /\ timer' = IF ArmsTimer(Timeout(rArgs)) THEN "armed" ELSE "none"
  /\ LET s0 == FinishState(FALSE, delivered, FALSE)
         s1 == IF ArmsTimer(Timeout(rArgs))
                 THEN SetTimeout(s0, rArgs.targetUrl, "noop")
                 ELSE s0
     IN /\ finished' = s1.finished
        /\ delivered' = s1.delivered
  /\ UNCHANGED <<rArgs, settled, escaped, loadVars, fetchVars>>

\* engine.onFinished = handler
AssignOnFinished(h) ==
  /\ rPc = "constructed"
  /\ onFinished # h
  /\ onFinished' = h
  /\ UNCHANGED <<rArgs, rPc, finished, request, requestSent, timer, delivered,
                 settled, escaped, loadVars, fetchVars>>

\* the request's promise fulfils: .then(response => finish({reachable: true,
\* response})); an exception of the handler rejects the promise of .then, and
\* .catch(error => finish({reachable: false, error})) runs on it
RequestFulfilled(response) ==
  /\ request = <<"pending">>
  /\ LET s0 == FinishState(finished, delivered, FALSE)
         s1 == Finish(s0, rArgs.targetUrl, onFinished,
                      [reachable |-> TRUE, response |-> response])
         s2 == IF s1.threw
                 THEN Finish(s1, rArgs.targetUrl, onFinished,
                             [reachable |-> FALSE, error |-> "handler exception"])
                 ELSE s1
     IN /\ finished' = s2.finished
        /\ delivered' = s2.delivered
        /\ escaped' = (escaped \/ s2.threw)
  /\ request' = <<"fulfilled", response>>
  /\ settled' = Append(settled, "success")
  /\ UNCHANGED <<rArgs, rPc, requestSent, timer, onFinished, loadVars, fetchVars>>

\* the request's promise rejects: .then passes the rejection on, and
\* .catch(error => finish({reachable: false, error})) runs
RequestRejected(error) ==
  /\ request = <<"pending">>
  /\ LET s0 == FinishState(finished, delivered, FALSE)
         s1 == Finish(s0, rArgs.targetUrl, onFinished,
                      [reachable |-> FALSE, error |-> error])
     IN /\ finished' = s1.finished
        /\ delivered' = s1.delivered
        /\ escaped' = (escaped \/ s1.threw)
  /\ request' = <<"rejected", error>>
  /\ settled' = Append(settled, "failure")
  /\ UNCHANGED <<rArgs, rPc, requestSent, timer, onFinished, loadVars, fetchVars>>

\* the timer's callback: () => finish({reachable: false, error: 'Request timeout'})
TimerFires ==
  /\ timer = "armed"
  /\ LET s0 == FinishState(finished, delivered, FALSE)
         s1 == Finish(s0, rArgs.targetUrl, onFinished,
                      [reachable |-> FALSE, error |-> TimeoutSentinel])
     IN /\ finished' = s1.finished
        /\ delivered' = s1.delivered
        /\ escaped' = (escaped \/ s1.threw)
  /\ timer' = "fired"
  /\ settled' = Append(settled, "timer")
  /\ UNCHANGED <<rArgs, rPc, request, requestSent, onFinished, loadVars, fetchVars>>

ReachNext ==
  \/ ReachConstruct
  \/ \E h \in Handlers \ {"noop"} : AssignOnFinished(h)
  \/ \E r \in Responses : RequestFulfilled(r)
  \/ \E e \in TransportErrors : RequestRejected(e)
  \/ TimerFires

(***************************************************************************)
(* PromiseEngine                                                           *)
(*                                                                         *)
(* An engine is a record [running, currentPromise, promises]:              *)
(*   running        #running                                               *)
(*   currentPromise #currentPromise, an index into promises (0: undefined) *)
(*   promises       every handle #next created, in order; a handle is      *)
(*                  [state, _cancel, request, answer] with state           *)
(*                    "pending"   the operation is in flight               *)
(*                    "fulfilled" the operation succeeded, the callback of *)
(*                                .then is queued                          *)
(*                    "rejected"  the operation failed                     *)
(*                    "done"      the callback of .then has run            *)
(***************************************************************************)
Channels == {"download", "upload"}

NoEngine == [running |-> FALSE, currentPromise |-> 0, promises |-> <<>>]

\* #setRunning(running)
setRunning(e, r) == IF r # e.running THEN [e EXCEPT !.running = r] ELSE e

\* #next(): curPromise = this.#currentPromise = this.#promiseFn().then(...)
next(e, req) ==
  [e EXCEPT !.promises = Append(@, [state |-> "pending", _cancel |-> FALSE,
                                    request |-> req, answer |-> <<>>]),
            !.currentPromise = Len(e.promises) + 1]

cancelNothing(e) == e

\* #cancelCurrent(): curPromise && (curPromise._cancel = true)
cancelCurrent(e) ==
  IF e.currentPromise # 0
    THEN [e EXCEPT !.promises[e.currentPromise]._cancel = TRUE]
    ELSE e

\* pause()
pause(e) == setRunning(cancelCurrent(e), FALSE)

\* stop()
stop(e) == pause(e)

playAlways(e, req) == next(setRunning(e, TRUE), req)

\* play(): if (!this.#running) { this.#setRunning(true); this.#next(); }
play(e, req) == IF ~e.running THEN next(setRunning(e, TRUE), req) ELSE e

\* constructor(promiseFn): this.play() on the fresh engine
newPromiseEngine(req) == play(NoEngine, req)

\* .then(callback): the callback is a fulfilment reaction only
thenOnSettled(p) == p.state \in {"fulfilled", "rejected"}
thenRuns(p) == p.state = "fulfilled"

\* !curPromise._cancel && this.#next()
continuesInverted(p) == p._cancel
continuesAlways(p) == TRUE
continues(p) == ~p._cancel

\* whether play() on e would call #next
playStarts(e) == play(e, <<>>) # e

(***************************************************************************)
(* LoadNetworkEngine                                                       *)
(***************************************************************************)
ApiUrls == {Absent, "", "https://x/test"}
\* an optional number: <<>> when not given, <<n>> when given
ChunkSizes == {<<>>} \cup {<<n>> : n \in -1 .. MaxChunk}
\* an optional channel config: <<>> when not given, <<[apiUrl, chunkSize]>>
ChannelConfigs == {<<>>} \cup {<<c>> : c \in [apiUrl : ApiUrls, chunkSize : ChunkSizes]}

\* what the transport can answer to a request of a channel
StatusCodes == {200, 404}
Answers == {<<"response", st>> : st \in StatusCodes}
             \cup {<<"error", "ECONNREFUSED">>}

\* this.ok = this.status >= 200 && this.status < 300
Ok(status) == status >= 200 /\ status < 300

\* JavaScript truthiness of an apiUrl (a string or undefined)
TruthyUrl(u) == u # Absent /\ u # ""
\* JavaScript truthiness of a chunkSize (a number or undefined)
TruthyNumber(n) == n # <<>> /\ n[1] # 0

\* the checks at the head of the constructor: the message of the first error
\* thrown, "" when none is
ConfigError(c) ==
  LET check(cf, type) ==
        IF cf = <<>> THEN ""
        ELSE IF ~TruthyUrl(cf[1].apiUrl)
          THEN "Missing " \o type \o " apiUrl argument"
        ELSE IF ~TruthyNumber(cf[1].chunkSize)
          THEN "Missing " \o type \o " chunkSize argument"
        ELSE ""
  IN IF c.download = <<>> /\ c.upload = <<>>
       THEN "Missing at least one of download/upload config"
     ELSE IF check(c.download, "download") # ""
       THEN check(c.download, "download")
     ELSE check(c.upload, "upload")

\* Object.entries(qsParams).map(([k, v]) => `${k}=${v}`).join('&')
RECURSIVE QueryString(_)
QueryString(qs) ==
  IF qs = <<>> THEN <<>>
  ELSE IF Len(qs) = 1 THEN <<qs[1][1], "=", qs[1][2]>>
  ELSE <<qs[1][1], "=", qs[1][2], "&">> \o QueryString(Tail(qs))

\* the call the operation of getLoadEngine makes:
\* (isNodeFetch ? nodeFetch : fetch)(`${apiUrl}?${...}`, finalFetchOptions)
LoadRequest(apiUrl, qsParams, fetchOptions, localAddress) ==
  [fn |-> IF IsNodeFetch(localAddress) THEN "nodeFetch" ELSE "fetch",
   url |-> <<apiUrl, "?">> \o QueryString(qsParams),
   method |-> fetchOptions.method,
   body |-> fetchOptions.body,
   localAddress |-> IF IsNodeFetch(localAddress) THEN localAddress ELSE Absent]

\* '0'.repeat(n): the string, for a count that is not negative
Repeat(n) == [i \in 1 .. n |-> "0"]
\* '0'.repeat(n) throws a RangeError for a negative count
RepeatThrows(n) == n < 0

\* method: options.method || 'GET': a request without a method option is a GET
EffectiveMethod(req) == IF req.method = Absent THEN "GET" ELSE req.method

\* the request of the download channel
DownloadRequest(c) ==
  LoadRequest(c.download[1].apiUrl,
              <<<<"bytes", ToString(c.download[1].chunkSize[1])>>>>,
              [method |-> Absent, body |-> <<>>], c.localAddress)

\* the request of the upload channel
UploadRequest(c) ==
  LoadRequest(c.upload[1].apiUrl, <<>>,
              [method |-> "POST", body |-> <<Repeat(c.upload[1].chunkSize[1])>>],
              c.localAddress)

ChannelRequest(ch) == IF ch = "download" THEN DownloadRequest(cfg) ELSE UploadRequest(cfg)

\* .then(r => { if (!r.ok) throw Error(r.statusText); return r.text(); })
\* on the answer of the transport: how the operation's promise settles
OperationOutcomeIgnoresOk(a) == IF a[1] = "error" THEN "rejected" ELSE "fulfilled"
OperationOutcome(a) ==
  IF a[1] = "error" THEN "rejected"
  ELSE IF ~Ok(a[2]) THEN "rejected"
  ELSE "fulfilled"

\* the transport answered with an error or with a status that is not 2xx
Failure(a) == a[1] = "error" \/ ~Ok(a[2])

Range(seq) == {seq[i] : i \in 1 .. Len(seq)}

\* the calls of the operation started so far, all channels together
TotalStarted == Len(pe["download"].promises) + Len(pe["upload"].promises)

ApiCall(op) ==
  [last |-> op,
   wasRunning |-> [ch \in Channels |-> pe[ch].running],
   paused |-> (api.paused \/ op \in {"pause", "stop"})]

LoadInit ==
  /\ cfg \in [download : ChannelConfigs, upload : ChannelConfigs,
              localAddress : LocalAddresses]
  /\ lne = "new"
  /\ lneError = ""
  /\ engines = <<>>
  /\ pe = [ch \in Channels |-> NoEngine]
  /\ api = [last |-> "none", wasRunning |-> [ch \in Channels |-> FALSE],
            paused |-> FALSE]

\* new LoadNetworkEngine(cfg)
LneConstruct ==
  /\ lne = "new"
  /\ LET err == ConfigError(cfg)
         \* download && this.#engines.push(getLoadEngine({...}))
         withDownload == cfg.download # <<>>
         \* upload && this.#engines.push(getLoadEngine({..., body: '0'.repeat()}))
         withUpload == cfg.upload # <<>>
         rangeError == withUpload /\ RepeatThrows(cfg.upload[1].chunkSize[1])
     IN IF err # ""
          THEN /\ lne' = "threw"
               /\ lneError' = err
               /\ UNCHANGED <<engines, pe>>
          ELSE /\ lne' = IF rangeError THEN "threw" ELSE "constructed"
               /\ lneError' = IF rangeError THEN "Invalid count value" ELSE ""
               /\ engines' = (IF withDownload THEN <<"download">> ELSE <<>>)
                             \o (IF withUpload /\ ~rangeError
                                   THEN <<"upload">> ELSE <<>>)
               /\ pe' = [ch \in Channels |->
                          IF ch = "download" /\ withDownload
                            THEN newPromiseEngine(DownloadRequest(cfg))
                          ELSE IF ch = "upload" /\ withUpload /\ ~rangeError
                            THEN newPromiseEngine(UploadRequest(cfg))
                          ELSE pe[ch]]
  /\ api' = ApiCall("new")
  /\ UNCHANGED <<cfg, reachVars, fetchVars>>

\* play(): this.#engines.forEach(engine => engine.play())
LnePlay ==
  /\ lne = "constructed"
  /\ TotalStarted + Cardinality({ch \in Range(engines) : playStarts(pe[ch])})
       <= MaxCalls
  /\ pe' = [ch \in Channels |->
             IF ch \in Range(engines) THEN play(pe[ch], ChannelRequest(ch))
             ELSE pe[ch]]
  /\ api' = ApiCall("play")
  /\ UNCHANGED <<cfg, lne, lneError, engines, reachVars, fetchVars>>

\* pause(): this.#engines.forEach(engine => engine.pause())
LnePause ==
  /\ lne = "constructed"
  /\ pe' = [ch \in Channels |->
             IF ch \in Range(engines) THEN pause(pe[ch]) ELSE pe[ch]]
  /\ api' = ApiCall("pause")
  /\ UNCHANGED <<cfg, lne, lneError, engines, reachVars, fetchVars>>

\* stop(): this.pause()
LneStop ==
  /\ lne = "constructed"
  /\ pe' = [ch \in Channels |->
             IF ch \in Range(engines) THEN stop(pe[ch]) ELSE pe[ch]]
  /\ api' = ApiCall("stop")
  /\ UNCHANGED <<cfg, lne, lneError, engines, reachVars, fetchVars>>

\* the transport answers the request of handle h of channel ch, and the
\* operation's promise settles
Settle(ch, h, a) ==
  /\ h \in 1 .. Len(pe[ch].promises)
  /\ pe[ch].promises[h].state = "pending"
  /\ pe' = [pe EXCEPT ![ch].promises[h].state = OperationOutcome(a),
                      ![ch].promises[h].answer = <<a>>]
  /\ UNCHANGED <<cfg, lne, lneError, engines, api, reachVars, fetchVars>>

\* the callback of .then runs for handle h of channel ch:
\* () => { !curPromise._cancel && this.#next(); }
ThenCallback(ch, h) ==
  /\ h \in 1 .. Len(pe[ch].promises)
  /\ thenRuns(pe[ch].promises[h])
  /\ LET p == pe[ch].promises[h]
         e == [pe[ch] EXCEPT !.promises[h].state = "done"]
     IN IF continues(p)
          THEN /\ TotalStarted < MaxCalls
               /\ pe' = [pe EXCEPT ![ch] = next(e, ChannelRequest(ch))]
          ELSE pe' = [pe EXCEPT ![ch] = e]
  /\ UNCHANGED <<cfg, lne, lneError, engines, api, reachVars, fetchVars>>

LoadNext ==
  \/ LneConstruct
  \/ LnePlay
  \/ LnePause
  \/ LneStop
  \/ \E ch \in Channels : \E h \in 1 .. MaxCalls : \E a \in Answers : Settle(ch, h, a)
  \/ \E ch \in Channels : \E h \in 1 .. MaxCalls : ThenCallback(ch, h)

(***************************************************************************)
(* nodeFetch: one HTTPS exchange with its timings, and NodeResponse.       *)
(* Every reading of performance.now() is at least the one before it.       *)
(***************************************************************************)
\* bodySize + 200: the estimate of the header size for a chunked response
HeaderEstimate == 200

\* the options the engines call nodeFetch with: no method (the download
\* channel), an explicit GET, a POST with a body (the upload channel)
FetchOptions ==
  { [method |-> Absent, body |-> <<>>],
    [method |-> "GET", body |-> <<>>],
    [method |-> "POST", body |-> <<"0">>] }

LookupErrors == {"ENOTFOUND"}
ConnectErrors == {"ECONNREFUSED", "ETIMEDOUT"}
RequestErrors == {"ECONNRESET"}

TimingFields ==
  {"startTime", "dnsStart", "dnsEnd", "tcpConnectStart", "tcpConnectEnd",
   "tlsHandshakeStart", "tlsHandshakeEnd", "firstByteTime", "endTime",
   "uploadLatency", "downloadLatency", "transferSize"}

\* const timings = { ... }: no property set yet
NoTimings == [f \in TimingFields |-> <<>>]

\* performance.now(): a reading not before the last one
Readings == now .. MaxTime

\* the heads a server may answer with; content-length and server-timing hold
\* decimal numerals (a present header, '0' included, is truthy), a chunked
\* response declares no length; json: the body the server sends parses as JSON
Heads ==
  { h \in [status : StatusCodes,
           contentLength : {<<>>} \cup {<<n>> : n \in 0 .. MaxBody},
           chunked : BOOLEAN,
           encrypted : BOOLEAN,
           serverTiming : {<<>>, <<1>>},
           json : BOOLEAN] :
      h.chunked => h.contentLength = <<>> }

\* the body lengths that agree with the head: the declared length, and a
\* text that parses as JSON is not empty
BodyLengths(head) ==
  { n \in 0 .. MaxBody :
      /\ head.contentLength # <<>> => n = head.contentLength[1]
      /\ head.json => n > 0 }

\* new NodePerformanceResourceTiming(timings, url, response, bodySize)
NodePerformanceResourceTiming(t, head, size) ==
  LET bySize == IF head.contentLength # <<>> THEN head.contentLength[1]
                ELSE IF head.chunked THEN size + HeaderEstimate
                ELSE size
      transferSize == IF bySize = 0 /\ head.serverTiming # <<>>
                      THEN head.serverTiming[1]
                      ELSE bySize
  IN [startTime |-> t.startTime, responseStart |-> t.firstByteTime,
      responseEnd |-> t.endTime, transferSize |-> transferSize,
      encodedBodySize |-> size, decodedBodySize |-> size]

\* new NodeResponse(res, body, timings); the timings property is the timings
\* object itself
NodeResponse(head, size) ==
  [status |-> head.status, ok |-> Ok(head.status), body |-> size,
   json |-> head.json, bodyUsed |-> FALSE]

textLeavesUnused(r) ==
  IF r.bodyUsed
    THEN [response |-> r, settles |-> <<"rejected", "Body already used">>]
    ELSE [response |-> r, settles |-> <<"resolved", "body">>]

\* text(): the response after the call and how the returned promise settles
text(r) ==
  IF r.bodyUsed
    THEN [response |-> r, settles |-> <<"rejected", "Body already used">>]
    ELSE [response |-> [r EXCEPT !.bodyUsed = TRUE],
          settles |-> <<"resolved", "body">>]

\* json(): this.text().then(text => JSON.parse(text))
json(r) ==
  LET t == text(r) IN
  [response |-> t.response,
   settles |-> IF t.settles[1] = "resolved"
                 THEN IF r.json THEN <<"resolved", "value">>
                                ELSE <<"rejected", "SyntaxError">>
                 ELSE t.settles]

\* the state before the call, whatever the options
FetchStart ==
  /\ fPc = "new"
  /\ now = 1
  /\ tcpStart = <<>>
  /\ timings = NoTimings
  /\ res = <<>>
  /\ toCome = 0
  /\ bodySize = 0
  /\ fPromise = <<"none">>
  /\ sent = <<>>
  /\ failure = <<>>
  /\ nodeResponse = <<>>
  /\ perfEntry = <<>>
  /\ reads = <<>>

FetchInit ==
  /\ fArgs \in FetchOptions
  /\ FetchStart

\* nodeFetch(urlStr, options) up to its first await: startTime, dnsStart, and
\* the lookup is under way
nodeFetch ==
  /\ fPc = "new"
  /\ \E t1 \in Readings : \E t2 \in t1 .. MaxTime :
       /\ timings' = [timings EXCEPT !.startTime = <<t1>>, !.dnsStart = <<t2>>]
       /\ now' = t2
  /\ fPromise' = <<"pending">>
  /\ fPc' = "dns"
  /\ UNCHANGED <<fArgs, tcpStart, res, toCome, bodySize, sent, failure,
                 nodeResponse, perfEntry, reads, reachVars, loadVars>>

\* the lookup succeeds: dnsEnd, tcpConnectStart, and measureTCPConnect takes
\* its own start and opens its socket
DnsResolved ==
  /\ fPc = "dns"
  /\ \E t1 \in Readings : \E t2 \in t1 .. MaxTime : \E t3 \in t2 .. MaxTime :
       /\ timings' = [timings EXCEPT !.dnsEnd = <<t1>>,
                                     !.tcpConnectStart = <<t2>>]
       /\ tcpStart' = <<t3>>
       /\ now' = t3
  /\ fPc' = "tcp"
  /\ UNCHANGED <<fArgs, res, toCome, bodySize, fPromise, sent, failure,
                 nodeResponse, perfEntry, reads, reachVars, loadVars>>

\* catch (error) { reject(error) }: no reject is in scope of the catch block,
\* the call throws ReferenceError and the async function's promise rejects
\* with that
Catch(phase, error) ==
  /\ fPromise' = <<"rejected", "ReferenceError">>
  /\ failure' = <<phase, error>>
  /\ fPc' = "rejected"
  /\ UNCHANGED <<fArgs, now, tcpStart, timings, res, toCome, bodySize, sent,
                 nodeResponse, perfEntry, reads, reachVars, loadVars>>

\* the lookup fails
DnsFailed(error) ==
  /\ fPc = "dns"
  /\ Catch("dns", error)

\* the probe socket fails to connect
TcpFailed(error) ==
  /\ fPc = "tcp"
  /\ Catch("connect", error)

\* the probe socket connects: tcpConnectEnd, tlsHandshakeStart, and the
\* executor of the returned promise issues the request
TcpConnected ==
  /\ fPc = "tcp"
  /\ \E t \in Readings :
       LET tcpTime == t - tcpStart[1]
           tcpConnectEnd == timings.tcpConnectStart[1] + tcpTime
       IN /\ timings' = [timings EXCEPT !.tcpConnectEnd = <<tcpConnectEnd>>,
                                        !.tlsHandshakeStart = <<tcpConnectEnd>>]
          /\ now' = t
  /\ sent' = <<[method |-> EffectiveMethod(fArgs), body |-> fArgs.body]>>
  /\ fPc' = "request"
  /\ UNCHANGED <<fArgs, tcpStart, res, toCome, bodySize, fPromise, failure,
                 nodeResponse, perfEntry, reads, reachVars, loadVars>>

\* req.on('error'): the request fails before a response arrives
RequestError(error) ==
  /\ fPc = "request"
  /\ fPromise' = <<"rejected", error>>
  /\ failure' = <<"request", error>>
  /\ fPc' = "rejected"
  /\ UNCHANGED <<fArgs, now, tcpStart, timings, res, toCome, bodySize, sent,
                 nodeResponse, perfEntry, reads, reachVars, loadVars>>

\* the response callback: the head has arrived, n body bytes will follow
ResponseHead(head, n) ==
  /\ fPc = "request"
  /\ IF head.encrypted
       THEN \E t \in Readings :
              /\ timings' =
                   IF fArgs.method = "POST"
                     THEN [timings EXCEPT
                             !.tlsHandshakeEnd = <<t>>,
                             !.uploadLatency = <<t - timings.startTime[1]>>]
                     ELSE [timings EXCEPT !.tlsHandshakeEnd = <<t>>]
              /\ now' = t
       ELSE UNCHANGED <<timings, now>>
  /\ res' = <<head>>
  /\ toCome' = n
  /\ fPc' = "streaming"
  /\ UNCHANGED <<fArgs, tcpStart, bodySize, fPromise, sent, failure, nodeResponse,
                 perfEntry, reads, reachVars, loadVars>>

\* res.on('data'): one chunk of one byte
Data ==
  /\ fPc = "streaming"
  /\ toCome > 0
  /\ IF timings.firstByteTime = <<>>
       THEN \E t \in Readings :
              /\ timings' =
                   IF fArgs.method = "GET"
                     THEN [timings EXCEPT
                             !.firstByteTime = <<t>>,
                             !.downloadLatency = <<t - timings.startTime[1]>>]
                     ELSE [timings EXCEPT !.firstByteTime = <<t>>]
              /\ now' = t
       ELSE UNCHANGED <<timings, now>>
  /\ bodySize' = bodySize + 1
  /\ toCome' = toCome - 1
  /\ UNCHANGED <<fArgs, fPc, tcpStart, res, fPromise, sent, failure, nodeResponse,
                 perfEntry, reads, reachVars, loadVars>>

\* res.on('end'): endTime, transferSize, the response and the performance
\* entry are built, the promise resolves with the response
End ==
  /\ fPc = "streaming"
  /\ toCome = 0
  /\ \E t \in Readings :
       /\ timings' = [timings EXCEPT !.endTime = <<t>>,
                                     !.transferSize = <<bodySize>>]
       /\ now' = t
  /\ nodeResponse' = <<NodeResponse(res[1], bodySize)>>
  /\ perfEntry' = <<NodePerformanceResourceTiming(timings', res[1], bodySize)>>
  /\ fPromise' = <<"resolved">>
  /\ fPc' = "resolved"
  /\ UNCHANGED <<fArgs, tcpStart, res, toCome, bodySize, sent, failure, reads,
                 reachVars, loadVars>>

\* the caller reads the body of the response it was given with text()
ReadText ==
  /\ fPc = "resolved"
  /\ Len(reads) < MaxReads
  /\ nodeResponse' = <<text(nodeResponse[1]).response>>
  /\ reads' = Append(reads, [call |-> "text",
                             read |-> text(nodeResponse[1]).settles,
                             result |-> text(nodeResponse[1]).settles])
  /\ UNCHANGED <<fArgs, fPc, now, tcpStart, timings, res, toCome, bodySize,
                 fPromise, sent, failure, perfEntry, reachVars, loadVars>>

\* the caller reads the body with json()
ReadJson ==
  /\ fPc = "resolved"
  /\ Len(reads) < MaxReads
  /\ nodeResponse' = <<json(nodeResponse[1]).response>>
  /\ reads' = Append(reads, [call |-> "json",
                             read |-> text(nodeResponse[1]).settles,
                             result |-> json(nodeResponse[1]).settles])
  /\ UNCHANGED <<fArgs, fPc, now, tcpStart, timings, res, toCome, bodySize,
                 fPromise, sent, failure, perfEntry, reachVars, loadVars>>

FetchNext ==
  \/ nodeFetch
  \/ DnsResolved
  \/ \E e \in LookupErrors : DnsFailed(e)
  \/ TcpConnected
  \/ \E e \in ConnectErrors : TcpFailed(e)
  \/ \E e \in RequestErrors : RequestError(e)
  \/ \E head \in Heads : \E n \in BodyLengths(head) : ResponseHead(head, n)
  \/ Data
  \/ End
  \/ ReadText
  \/ ReadJson

(***************************************************************************)
(* Specifications: each engine is a program of its own.                    *)
(***************************************************************************)
ReachIdle ==
  /\ rArgs = [targetUrl |-> "https://a/", timeout |-> <<>>, localAddress |-> Null]
  /\ rPc = "new"
  /\ finished = FALSE
  /\ request = <<"none">>
  /\ requestSent = <<>>
  /\ timer = "none"
  /\ onFinished = "noop"
  /\ delivered = <<>>
  /\ settled = <<>>
  /\ escaped = FALSE

LoadIdle ==
  /\ cfg = [download |-> <<>>, upload |-> <<>>, localAddress |-> Null]
  /\ lne = "new"
  /\ lneError = ""
  /\ engines = <<>>
  /\ pe = [ch \in Channels |-> NoEngine]
  /\ api = [last |-> "none", wasRunning |-> [ch \in Channels |-> FALSE],
            paused |-> FALSE]

FetchIdle ==
  /\ fArgs = [method |-> Absent, body |-> <<>>]
  /\ FetchStart

\* LoadNetworkEngine with its PromiseEngine channels
Init == LoadInit /\ ReachIdle /\ FetchIdle
Next == LoadNext
Spec == Init /\ [][Next]_vars

\* ReachabilityEngine
InitReach == ReachInit /\ LoadIdle /\ FetchIdle
SpecReach == InitReach /\ [][ReachNext]_vars

\* the timer of the run-time fires once armed; the request may never settle
SpecReachFair == SpecReach /\ WF_vars(TimerFires)

\* nodeFetch and the NodeResponse it resolves with
InitFetch == FetchInit /\ LoadIdle /\ ReachIdle
SpecFetch == InitFetch /\ [][FetchNext]_vars

(***************************************************************************)
(* Claims about ReachabilityEngine                                         *)
(***************************************************************************)
Invocations == Len(delivered)

\* C1: onFinished is invoked at most once in every interleaving of request
\* success, request failure and the deadline timer, in either order; once the
\* latch is set, a later settlement delivers nothing.
C1_AtMostOnce ==
  /\ [](Invocations <= 1)
  /\ [][finished => delivered' = delivered]_vars

\* both sources have settled, one after the other, and one verdict was delivered
C1_Witness == Len(settled) = 2 /\ finished /\ Invocations = 1

\* C2: the verdict is that of the first source to settle, it carries the
\* constructor's targetUrl, and without a positive timeout no timer is armed
\* and no timeout verdict is delivered.
C2_FirstSettlerDecides ==
  /\ (settled # <<>>) <=> (delivered # <<>>)
  /\ delivered # <<>> =>
       LET v == delivered[1].result IN
       /\ v.targetUrl = rArgs.targetUrl
       /\ settled[1] = "success" =>
            v = [targetUrl |-> rArgs.targetUrl, reachable |-> TRUE,
                 response |-> request[2]]
       /\ settled[1] = "failure" =>
            v = [targetUrl |-> rArgs.targetUrl, reachable |-> FALSE,
                 error |-> request[2]]
       /\ settled[1] = "timer" =>
            /\ v = [targetUrl |-> rArgs.targetUrl, reachable |-> FALSE,
                    error |-> TimeoutSentinel]
            /\ rArgs.timeout # <<>> /\ rArgs.timeout[1] > 0
  /\ (rArgs.timeout = <<>> \/ rArgs.timeout[1] <= 0) =>
       /\ timer = "none"
       /\ \A i \in 1 .. Len(delivered) :
            ~("error" \in DOMAIN delivered[i].result
              /\ delivered[i].result.error = TimeoutSentinel)

\* the timer won the race and the request succeeded afterwards
C2_Witness ==
  /\ settled = <<"timer", "success">>
  /\ delivered # <<>> /\ delivered[1].result.error = TimeoutSentinel

\* C3: exactly one verdict is eventually delivered: with a positive timeout
\* even if the request never settles (the timer fires), and without one as
\* soon as the request settles.
C3_EventuallyOneVerdict ==
  /\ [](Invocations <= 1)
  /\ [][Invocations = 1 => Len(delivered') = 1]_vars
  /\ [](rPc = "constructed" /\ rArgs.timeout # <<>> /\ rArgs.timeout[1] > 0
          => <>(Invocations = 1))
  /\ [](request[1] \in {"fulfilled", "rejected"} => Invocations = 1)

\* the verdict came from the timer while the request is still pending
C3_Witness ==
  /\ request = <<"pending">> /\ timer = "fired" /\ Invocations = 1

(***************************************************************************)
(* Claims about PromiseEngine and LoadNetworkEngine                        *)
(***************************************************************************)
\* the calls of the operation the engine of channel ch has started
Started(ch) == Len(pe[ch].promises)
\* the handles of channel ch whose operation has not settled
InFlight(ch) == {h \in 1 .. Len(pe[ch].promises) : pe[ch].promises[h].state = "pending"}
\* a step of the public API
ApiStep == LneConstruct \/ LnePlay \/ LnePause \/ LneStop
\* the callback of .then runs for a handle of channel ch in this step
CallbackRunsOn(ch, h) ==
  /\ pe[ch].promises[h].state = "fulfilled"
  /\ pe'[ch].promises[h].state = "done"
CallbackRuns(ch) == \E h \in 1 .. Len(pe[ch].promises) : CallbackRunsOn(ch, h)
\* channel ch was constructed, never paused or stopped, and no operation failed
FreelyRunning(ch) ==
  /\ Started(ch) > 0
  /\ ~api.paused
  /\ \A h \in 1 .. Len(pe[ch].promises) : pe[ch].promises[h].state # "rejected"

\* C4: after stop() or pause() on the LoadNetworkEngine, and until play() is
\* called, no configured channel starts a call of its operation, also when the
\* call in flight at the time of the stop settles successfully.
C4_NoCallAfterStop ==
  [][(api.last \in {"pause", "stop"} /\ api'.last \in {"pause", "stop"})
       => \A ch \in Range(engines) : Started(ch)' = Started(ch)]_vars

\* stopped, and a call canceled by the stop has settled successfully and its
\* callback has run
C4_Witness ==
  /\ api.last = "stop"
  /\ \E ch \in Range(engines) : \E h \in 1 .. Len(pe[ch].promises) :
       pe[ch].promises[h]._cancel /\ pe[ch].promises[h].state = "done"

\* C5: at most one operation started by one PromiseEngine is unsettled, under
\* any sequence of play(), pause(), stop() and settlements.
C5_AtMostOneInFlight == \A ch \in Channels : Cardinality(InFlight(ch)) <= 1

\* C6: in a freely-running engine whose operations all succeed, call N+1
\* starts only after call N has settled, and the callback of every successful
\* settlement starts the next call.
C6_FreeRunSequential ==
  /\ [](\A ch \in Channels : FreelyRunning(ch) =>
          /\ Cardinality(InFlight(ch)) <= 1
          /\ \A h \in 1 .. Started(ch) - 1 : pe[ch].promises[h].state = "done")
  /\ [][\A ch \in Channels : (FreelyRunning(ch) /\ CallbackRuns(ch)) =>
          /\ Started(ch)' = Started(ch) + 1
          /\ pe'[ch].promises[Started(ch)'].state = "pending"]_vars

\* a freely-running channel whose first call settled and whose second is in flight
C6_Witness ==
  \E ch \in Channels :
    /\ FreelyRunning(ch) /\ Started(ch) >= 2
    /\ pe[ch].promises[1].state = "done"
    /\ pe[ch].promises[2].state = "pending"

\* C7: play() on a running engine and pause()/stop() on an idle engine change
\* nothing of the engine: no operation started, no handle newly canceled, the
\* running flag and the in-flight operations as before.
C7_NoOps ==
  [][/\ LnePlay => \A ch \in Range(engines) :
                     pe[ch].running => pe'[ch] = pe[ch]
     /\ (LnePause \/ LneStop) => \A ch \in Range(engines) :
                     ~pe[ch].running => pe'[ch] = pe[ch]]_vars

\* play() was called on a running engine with an operation in flight
C7_Witness ==
  /\ api.last = "play"
  /\ \E ch \in Range(engines) : api.wasRunning[ch] /\ InFlight(ch) # {}

\* C8: when the operation fails, the loop halts: the failure starts no call,
\* the callback never runs for the failed handle, canceled or not, and only a
\* call of the API starts a call that the callback of a successful one did
\* not start, or any call while the current one has failed.
C8_FailureHalts ==
  [][/\ \A ch \in Channels : \A h \in 1 .. Len(pe[ch].promises) :
          /\ (pe[ch].promises[h].state = "pending"
              /\ pe'[ch].promises[h].state = "rejected")
               => Started(ch)' = Started(ch)
          /\ pe[ch].promises[h].state = "rejected"
               => pe'[ch].promises[h].state = "rejected"
     /\ (\E ch \in Channels :
            /\ Started(ch)' > Started(ch)
            /\ \/ ~CallbackRuns(ch)
               \/ pe[ch].promises[pe[ch].currentPromise].state = "rejected")
          => ApiStep]_vars

\* an operation failed that was not canceled, and one that was
C8_Witness ==
  \E ch \in Channels : \E h, k \in 1 .. Len(pe[ch].promises) :
    /\ pe[ch].promises[h].state = "rejected" /\ ~pe[ch].promises[h]._cancel
    /\ pe[ch].promises[k].state = "rejected" /\ pe[ch].promises[k]._cancel

\* what the claim says a config is: supplied with a non-empty apiUrl and a
\* positive chunkSize
ValidConfig(cf) ==
  /\ TruthyUrl(cf[1].apiUrl)
  /\ cf[1].chunkSize # <<>> /\ cf[1].chunkSize[1] > 0

\* C9: construction throws iff neither config is supplied or a supplied
\* config has a missing/empty apiUrl or a missing or non-positive chunkSize.
C9_ThrowsIffInvalid ==
  lne # "new" =>
    (lne = "threw" <=>
       \/ cfg.download = <<>> /\ cfg.upload = <<>>
       \/ cfg.download # <<>> /\ ~ValidConfig(cfg.download)
       \/ cfg.upload # <<>> /\ ~ValidConfig(cfg.upload))

\* the other channel
Sibling(ch) == IF ch = "download" THEN "upload" ELSE "download"
\* the transport failed the current call of channel ch
FailedChannel(ch) ==
  /\ Started(ch) > 0
  /\ LET p == pe[ch].promises[pe[ch].currentPromise]
     IN p.answer # <<>> /\ Failure(p.answer[1])

C20_NoDeliveryInConstructor ==
  /\ [](settled = <<>> => delivered = <<>>)
  /\ [][ReachConstruct => (delivered' = <<>> /\ ~finished')]_vars
  /\ [][(settled = <<>> /\ settled' # <<>>) =>
          /\ Len(delivered') = 1
          /\ delivered'[1].handler = onFinished]_vars

\* the caller's handler, assigned after construction, received the verdict of
\* a request that succeeded
C20_Witness ==
  /\ delivered # <<>> /\ delivered[1].handler = "user"
  /\ settled = <<"success">>
  /\ delivered[1].result.reachable

(***************************************************************************)
(* Further claims about LoadNetworkEngine and PromiseEngine                *)
(***************************************************************************)
\* the string a sequence of pieces spells
RECURSIVE Text(_)
Text(pieces) == IF pieces = <<>> THEN "" ELSE pieces[1] \o Text(Tail(pieces))

\* C11: every request of the download channel is a GET of exactly
\* '<apiUrl>?bytes=<chunkSize>', and every request of the upload channel is a
\* POST of exactly '<apiUrl>' with a body of chunkSize filler bytes.
C11_RequestShapes ==
  \A ch \in Channels : \A h \in 1 .. Len(pe[ch].promises) :
    LET r == pe[ch].promises[h].request IN
    /\ ch = "download" =>
         /\ EffectiveMethod(r) = "GET"
         /\ Text(r.url) = cfg.download[1].apiUrl \o "?bytes="
                            \o ToString(cfg.download[1].chunkSize[1])
    /\ ch = "upload" =>
         /\ EffectiveMethod(r) = "POST"
         /\ Text(r.url) = cfg.upload[1].apiUrl
         /\ r.body # <<>>
         /\ Len(r.body[1]) = cfg.upload[1].chunkSize[1]
         /\ \A i \in 1 .. Len(r.body[1]) : r.body[1][i] = "0"

\* the handles of channel ch that can still call #next: not canceled, and the
\* operation in flight or its callback queued
Continuing(ch) ==
  {h \in 1 .. Len(pe[ch].promises) :
     /\ pe[ch].promises[h].state \in {"pending", "fulfilled"}
     /\ ~pe[ch].promises[h]._cancel}

\* C17: every handle in flight other than the most recently started one is
\* canceled, so at most one handle can continue the loop, and the callback
\* of a canceled handle starts no iteration.
C17_OneLiveHandle ==
  /\ [](\A ch \in Channels :
          /\ Continuing(ch) \subseteq {Started(ch)}
          /\ pe[ch].currentPromise = Started(ch))
  /\ [][\A ch \in Channels : \A h \in 1 .. Len(pe[ch].promises) :
          (CallbackRunsOn(ch, h) /\ pe[ch].promises[h]._cancel)
            => Started(ch)' = Started(ch)]_vars

\* two operations in flight after pause() and play(): the older one canceled,
\* the newer one not
C17_Witness ==
  \E ch \in Channels :
    /\ InFlight(ch) = {1, 2}
    /\ pe[ch].promises[1]._cancel /\ ~pe[ch].promises[2]._cancel

\* the current operation of the running engine of channel ch has failed
FailedRunning(ch) ==
  /\ Started(ch) > 0
  /\ pe[ch].running
  /\ pe[ch].promises[pe[ch].currentPromise].state = "rejected"

\* C18: after its operation fails, a running engine stays marked running with
\* no operation in flight, play() alone starts nothing, and the loop resumes
\* only with pause()/stop() followed by play().
C18_FailedEngineStaysRunning ==
  /\ [](\A ch \in Channels : FailedRunning(ch) => InFlight(ch) = {})
  /\ [][\A ch \in Channels : \A h \in 1 .. Len(pe[ch].promises) :
          (pe[ch].promises[h].state = "pending"
           /\ pe'[ch].promises[h].state = "rejected")
            => pe'[ch].running = pe[ch].running]_vars
  /\ [][(\E ch \in Channels : FailedRunning(ch) /\ Started(ch)' > Started(ch))
          => FALSE]_vars

\* C19: a construction that throws has started no channel: no PromiseEngine
\* was created and no request was issued.
C19_ThrowStartsNothing ==
  lne = "threw" => (engines = <<>> /\ \A ch \in Channels : pe[ch] = NoEngine)

(***************************************************************************)
(* Claims about nodeFetch and NodeResponse.                                *)
(***************************************************************************)
Resolved == fPromise = <<"resolved">>

PhaseOrder ==
  <<"startTime", "dnsStart", "dnsEnd", "tcpConnectStart", "tcpConnectEnd",
    "tlsHandshakeStart", "tlsHandshakeEnd", "firstByteTime", "endTime">>

\* C12: the timings of every resolved response have all nine timestamps set,
\* in non-decreasing phase order, with tlsHandshakeStart = tcpConnectEnd.
C12_TimestampsOrdered ==
  Resolved =>
    /\ \A i \in 1 .. Len(PhaseOrder) : timings[PhaseOrder[i]] # <<>>
    /\ \A i \in 1 .. Len(PhaseOrder) - 1 :
         timings[PhaseOrder[i]][1] <= timings[PhaseOrder[i + 1]][1]
    /\ timings.tlsHandshakeStart = timings.tcpConnectEnd

BodyReuse == <<"rejected", "Body already used">>

\* C13: of the text()/json() calls on one NodeResponse the first reads the
\* body and every later one fails with the body-reuse error; bodyUsed turns
\* true with the first read and never turns false again.
C13_BodyReadOnce ==
  /\ [](nodeResponse # <<>> =>
          /\ nodeResponse[1].bodyUsed <=> reads # <<>>
          /\ \A i \in 1 .. Len(reads) :
               IF i = 1
                 THEN reads[i].read = <<"resolved", "body">>
                 ELSE reads[i].read = BodyReuse /\ reads[i].result = BodyReuse)
  /\ [][(nodeResponse # <<>> /\ nodeResponse[1].bodyUsed)
          => (nodeResponse' # <<>> /\ nodeResponse'[1].bodyUsed)]_vars

\* json() read the body, a later text() failed with the body-reuse error
C13_Witness ==
  /\ Len(reads) >= 2
  /\ reads[1].call = "json" /\ reads[1].read = <<"resolved", "body">>
  /\ reads[2].call = "text" /\ reads[2].result = BodyReuse
  /\ nodeResponse[1].bodyUsed

\* C14: when the lookup or the connect fails, nodeFetch's promise rejects
\* with the error of that phase, no request is sent and no response is made.
C14_OriginalError ==
  (failure # <<>> /\ failure[1] \in {"dns", "connect"}) =>
    /\ fPromise = <<"rejected", failure[2]>>
    /\ sent = <<>>
    /\ nodeResponse = <<>>

\* the transferSize of the claim: the declared length, else the bytes
\* received, padded when the transfer is chunked and empty
ClaimedTransferSize ==
  IF res[1].contentLength # <<>> THEN res[1].contentLength[1]
  ELSE IF res[1].chunked /\ bodySize = 0 THEN bodySize + HeaderEstimate
  ELSE bodySize

\* C15: the transferSize in the timings of a resolved response is the
\* declared content length if there is one, else the bytes received, plus
\* the padding constant only for a chunked transfer of zero bytes.
C15_TransferSize ==
  Resolved => timings.transferSize = <<ClaimedTransferSize>>

\* C16: a completed GET (the method given or defaulted) carries
\* downloadLatency = firstByteTime - startTime, a completed POST carries
\* uploadLatency = tlsHandshakeEnd - startTime.
C16_Latencies ==
  Resolved =>
    /\ EffectiveMethod(fArgs) = "GET" =>
         /\ timings.firstByteTime # <<>>
         /\ timings.downloadLatency =
              <<timings.firstByteTime[1] - timings.startTime[1]>>
    /\ EffectiveMethod(fArgs) = "POST" =>
         /\ timings.tlsHandshakeEnd # <<>>
         /\ timings.uploadLatency =
              <<timings.tlsHandshakeEnd[1] - timings.startTime[1]>>

====
